---- MODULE Spec2Model ----
(***************************************************************************)
(* Model of model_evaluation.ipynb: the per-record ranking metrics          *)
(* (evaluate_metrics), their average over a list of records                 *)
(* (evaluate_metrics_on_list) and the ground-truth filter                   *)
(* (filter_endoftext_items).                                                *)
(*                                                                         *)
(* A Python str is a sequence of one-character strings.  A Python number    *)
(* is an exact fraction [num, den] in lowest terms; the one irrational      *)
(* quantity, 1 / np.log2(i + 2), is carried in thousandths.                 *)
(***************************************************************************)
EXTENDS Integers, Sequences, FiniteSets, TLC

VARIABLES
    output, model_response, k, metrics,  \* evaluate_metrics: arguments, result
    data_list,                           \* the records loaded in cell 6
    filtered_data,                       \* filter_endoftext_items: its result list
    samples, idx, sums,                  \* evaluate_metrics_on_list: argument, loop
    avg_metrics,                         \* the notebook's avg_metrics
    cell,                                \* the notebook cell being run, 0 for a bare call
    pc

vars == <<output, model_response, k, metrics,
          data_list, filtered_data, samples, idx, sums, avg_metrics, cell, pc>>

(* ---------------------------- bounds ---------------------------------- *)

MaxK == 3
MaxTruthTokens == 2
MaxPredTokens == 3
MaxRecords == 2

(* ---------------------------- numbers --------------------------------- *)

Min(a, b) == IF a <= b THEN a ELSE b

RECURSIVE GCD(_, _)
GCD(a, b) == IF b = 0 THEN a ELSE GCD(b, a % b)

\* the quotient n / d of two non-negative integers, d > 0
Rat(n, d) == LET g == GCD(n, d) IN [num |-> n \div g, den |-> d \div g]

Zero == Rat(0, 1)
One == Rat(1, 1)

RatAdd(a, b) ==
    LET l == (a.den \div GCD(a.den, b.den)) * b.den
    IN  Rat(a.num * (l \div a.den) + b.num * (l \div b.den), l)

RatDivInt(a, n) == Rat(a.num, a.den * n)

RatLeq(a, b) == a.num * b.den <= b.num * a.den

InUnitInterval(a) == RatLeq(Zero, a) /\ RatLeq(a, One)

\* 1000 / log2(i + 2) for i = 0 .. 9, rounded to the nearest integer
DiscountMilli == <<1000, 631, 500, 431, 387, 356, 333, 315, 301, 289>>

Discount(i) == DiscountMilli[i + 1]

RECURSIVE SumDiscounts(_)
\* the sum of 1 / log2(i + 2) over the positions i of P
SumDiscounts(P) ==
    IF P = {} THEN 0
    ELSE LET i == CHOOSE j \in P : TRUE
         IN  Discount(i) + SumDiscounts(P \ {i})

(* ---------------------------- strings --------------------------------- *)

Marker == <<"i", "t", "e", "m", "_">>
Sentinel == <<"<", "|", "e", "n", "d", "o", "f", "t", "e", "x", "t", "|", ">">>
\* the whitespace str.strip() removes (those TLA+ can write)
Whitespace == {" ", "\t", "\n", "\r", "\f"}

SeqToSet(s) == {s[i] : i \in DOMAIN s}

\* sub in t
Contains(t, sub) ==
    \E i \in 1..(Len(t) - Len(sub) + 1) : SubSeq(t, i, i + Len(sub) - 1) = sub

\* t.strip()
Strip(t) ==
    LET ink == {i \in 1..Len(t) : t[i] \notin Whitespace}
    IN  IF ink = {} THEN <<>>
        ELSE SubSeq(t, CHOOSE i \in ink : \A j \in ink : i <= j,
                       CHOOSE i \in ink : \A j \in ink : j <= i)

RECURSIVE Split(_)
\* s.split(",")
Split(s) ==
    LET commas == {i \in 1..Len(s) : s[i] = ","}
    IN  IF commas = {} THEN <<s>>
        ELSE LET p == CHOOSE i \in commas : \A j \in commas : i <= j
             IN  <<SubSeq(s, 1, p - 1)>> \o Split(SubSeq(s, p + 1, Len(s)))

\* [item.strip() for item in pieces if "item_" in item]
ItemsOf(pieces) ==
    LET kept == SelectSeq(pieces, LAMBDA item : Contains(item, Marker))
    IN  [i \in 1..Len(kept) |-> Strip(kept[i])]

\* s[:n]
Take(s, n) == SubSeq(s, 1, Min(Len(s), n))

RECURSIVE Dedup(_)
\* list(dict.fromkeys(s))
Dedup(s) ==
    IF s = <<>> THEN <<>>
    ELSE LET f == Dedup(SubSeq(s, 1, Len(s) - 1))
         IN  IF s[Len(s)] \in SeqToSet(f) THEN f ELSE Append(f, s[Len(s)])

(* ------------------------- evaluate_metrics --------------------------- *)

ActualItems(out) == ItemsOf(Split(out))

\* the cut to k taken on the raw tokens, before the tokens without the marker go
TopKOfRawTokens(resp, kk) == ItemsOf(Take(Split(resp), kk))

\* [... for item in model_response.split(",") if "item_" in item][:k]
TopK(resp, kk) == Take(ItemsOf(Split(resp)), kk)

PredictedItems(resp, kk) == Dedup(TopK(resp, kk))

TruePositives(actual, predicted) == SeqToSet(actual) \cap SeqToSet(predicted)

ReciprocalRank(actual, predicted) ==
    LET hits == {r \in 1..Len(predicted) : predicted[r] \in SeqToSet(actual)}
    IN  IF hits = {} THEN Zero
        ELSE Rat(1, CHOOSE r \in hits : \A q \in hits : r <= q)

DCG(actual, predicted) ==
    SumDiscounts({i \in 0..(Len(predicted) - 1) : predicted[i + 1] \in SeqToSet(actual)})

IDCG(actual, kk) == SumDiscounts(0..(Min(Len(actual), kk) - 1))

\* the outcome of a call that raises
ZeroDivisionError == [error |-> "ZeroDivisionError"]

\* precision@k given the default 0 for an empty prediction list
EvaluateMetricsGuarded(out, resp, kk) ==
    LET actual == ActualItems(out)
        predicted == PredictedItems(resp, kk)
        tp == Cardinality(TruePositives(actual, predicted))
        idcg == IDCG(actual, kk)
    IN  [precision |-> IF Min(Len(predicted), kk) = 0 THEN Zero
                       ELSE Rat(tp, Min(Len(predicted), kk)),
         recall |-> IF Len(actual) > 0 THEN Rat(tp, Len(actual)) ELSE Zero,
         mrr |-> ReciprocalRank(actual, predicted),
         hr |-> IF tp > 0 THEN One ELSE Zero,
         ndcg |-> IF idcg > 0 THEN Rat(DCG(actual, predicted), idcg) ELSE Zero]

EvaluateMetrics(out, resp, kk) ==
    LET actual == ActualItems(out)
        predicted == PredictedItems(resp, kk)
        tp == Cardinality(TruePositives(actual, predicted))
        idcg == IDCG(actual, kk)
    IN  IF Min(Len(predicted), kk) = 0 THEN ZeroDivisionError
        ELSE [precision |-> Rat(tp, Min(Len(predicted), kk)),
              recall |-> IF Len(actual) > 0 THEN Rat(tp, Len(actual)) ELSE Zero,
              mrr |-> ReciprocalRank(actual, predicted),
              hr |-> IF tp > 0 THEN One ELSE Zero,
              ndcg |-> IF idcg > 0 THEN Rat(DCG(actual, predicted), idcg) ELSE Zero]

MetricNames == {"precision", "recall", "mrr", "hr", "ndcg"}

(* ------------------------------ inputs -------------------------------- *)

RECURSIVE Join(_)
\* ",".join(tokens)
Join(tokens) ==
    IF tokens = <<>> THEN <<>>
    ELSE IF Len(tokens) = 1 THEN tokens[1]
    ELSE tokens[1] \o <<",">> \o Join(Tail(tokens))

ItemA == Marker \o <<"A">>
ItemB == Marker \o <<"B">>
ItemX == Marker \o <<"X">>

TruthTokens == {ItemA, <<" ">> \o ItemB, <<" ">> \o Sentinel}
PredTokens == {ItemA, <<" ">> \o ItemB, ItemX \o <<" ">>, <<" ">> \o Sentinel}

SeqsUpTo(S, n) == UNION {[1..m -> S] : m \in 0..n}

TruthStrings == {Join(ts) : ts \in SeqsUpTo(TruthTokens, MaxTruthTokens)}
PredStrings == {Join(ts) : ts \in SeqsUpTo(PredTokens, MaxPredTokens)}

None == [none |-> TRUE]

(* --------------------- a call of evaluate_metrics --------------------- *)

ListIdle ==
    /\ data_list = <<>>
    /\ filtered_data = <<>>
    /\ samples = <<>>
    /\ idx = 0
    /\ sums = None
    /\ avg_metrics = None
    /\ cell = 0

Init ==
    /\ output \in TruthStrings
    /\ model_response \in PredStrings
    /\ k \in 1..MaxK
    /\ metrics = None
    /\ pc = "call"
    /\ ListIdle

Evaluate ==
    /\ pc = "call"
    /\ metrics' = EvaluateMetrics(output, model_response, k)
    /\ pc' = IF metrics' = ZeroDivisionError THEN "raised" ELSE "returned"
    /\ UNCHANGED <<output, model_response, k,
                   data_list, filtered_data, samples, idx, sums, avg_metrics, cell>>

Next == Evaluate

Spec == Init /\ [][Next]_vars

(* ------------------- claims about evaluate_metrics -------------------- *)

Finished == pc \in {"returned", "raised"}

actual_items == ActualItems(output)
ranked_items == ItemsOf(Split(model_response))
predicted_items == PredictedItems(model_response, k)

\* C1: every call returns the five metrics and each lies in [0, 1].
C1_AllMetricsInUnitInterval ==
    Finished =>
        /\ pc = "returned"
        /\ \A m \in MetricNames : InUnitInterval(metrics[m])

NoOverlap == SeqToSet(predicted_items) \cap SeqToSet(actual_items) = {}

\* C2: when the de-duplicated top-k predictions share no item with the
\* ground truth (an empty prediction list included) all five metrics are 0.
C2_NoOverlapAllZero ==
    (Finished /\ NoOverlap) =>
        /\ pc = "returned"
        /\ \A m \in MetricNames : metrics[m] = Zero

\* every distinct ground-truth item stands at the top of the ranking, before
\* any other item
IdealOrder ==
    LET d == Cardinality(SeqToSet(actual_items))
    IN  /\ Len(ranked_items) >= d
        /\ SeqToSet(SubSeq(ranked_items, 1, d)) = SeqToSet(actual_items)

\* C3: with at least one ground-truth item token (repeats allowed), k at
\* least the number of ground-truth item tokens and the ground-truth items
\* ranked first, ndcg@k is 1.
C3_IdealOrderNdcgOne ==
    (Finished /\ Len(actual_items) >= 1 /\ k >= Len(actual_items) /\ IdealOrder) =>
        /\ pc = "returned"
        /\ metrics.ndcg = One

\* the ranking is one item r times, then a different item of the ground truth
RepeatThenHit(r) ==
    /\ Len(ranked_items) = r + 1
    /\ \A i \in 1..r : ranked_items[i] = ranked_items[1]
    /\ ranked_items[r + 1] # ranked_items[1]
    /\ ranked_items[r + 1] \in SeqToSet(actual_items)

\* C4: for k >= 2 and any repeat count r >= 1 the repeated item takes one
\* slot: the correct item after it is a hit, and mrr is 1/2 when the
\* repeated item is not in the ground truth.
C4_RepeatTakesOneSlot ==
    \A r \in 1..Len(ranked_items) :
        (Finished /\ k >= 2 /\ RepeatThenHit(r)) =>
            /\ pc = "returned"
            /\ metrics.hr = One
            /\ ranked_items[1] \notin SeqToSet(actual_items) => metrics.mrr = Rat(1, 2)

\* C8: a zero denominator never raises: precision is 0 for an empty
\* prediction list, recall 0 for an empty ground truth, ndcg 0 for IDCG 0.
C8_ZeroDenominatorIsZero ==
    Finished =>
        /\ pc = "returned"
        /\ predicted_items = <<>> => metrics.precision = Zero
        /\ actual_items = <<>> => metrics.recall = Zero
        /\ IDCG(actual_items, k) = 0 => metrics.ndcg = Zero

NonItemTokens == {<<" ">> \o Sentinel, <<"i", "t", "e", "m">>}

InsertAt(s, p, t) == SubSeq(s, 1, p - 1) \o <<t>> \o SubSeq(s, p, Len(s))
RemoveAt(s, p) == SubSeq(s, 1, p - 1) \o SubSeq(s, p + 1, Len(s))

\* the strings s becomes by inserting or removing one token without the marker
NonItemEdits(s) ==
    LET pieces == Split(s)
    IN  {Join(InsertAt(pieces, p, t)) : p \in 1..(Len(pieces) + 1), t \in NonItemTokens}
        \cup {Join(RemoveAt(pieces, p)) :
                  p \in {q \in 1..Len(pieces) : ~Contains(pieces[q], Marker)}}

\* C9: inserting or removing a token without the marker, anywhere in the
\* ground-truth string or in the prediction string, leaves the outcome of
\* evaluate_metrics unchanged.
C9_NonItemTokensIgnored ==
    Finished =>
        /\ \A o \in NonItemEdits(output) :
               EvaluateMetrics(o, model_response, k) = metrics
        /\ \A r \in NonItemEdits(model_response) :
               EvaluateMetrics(output, r, k) = metrics

\* a returned call whose prediction string holds more tokens than k, starts
\* with a token without the marker and still ranks its hit first
C9_Witness ==
    /\ pc = "returned"
    /\ Len(Split(model_response)) > k
    /\ ~Contains(Split(model_response)[1], Marker)
    /\ \E i \in 1..Len(Split(output)) : ~Contains(Split(output)[i], Marker)
    /\ Len(ranked_items) = k
    /\ metrics.mrr = One
    /\ metrics.precision = One

(* ------------- what holds of evaluate_metrics where it returns -------- *)

\* a call that returns gives five values in [0, 1]
ReturnedInUnitInterval ==
    pc = "returned" => \A m \in MetricNames : InUnitInterval(metrics[m])

\* the call raises exactly when the prediction string holds no item token
RaisedIffNoPrediction == Finished => (pc = "raised" <=> ranked_items = <<>>)

\* a call that returns with no overlap gives five zeros
ReturnedNoOverlapAllZero ==
    (pc = "returned" /\ NoOverlap) => \A m \in MetricNames : metrics[m] = Zero

\* with pairwise distinct ground-truth tokens an ideal ranking has ndcg@k = 1
DistinctIdealOrderNdcgOne ==
    (Finished /\ Len(actual_items) >= 1 /\ k >= Len(actual_items) /\ IdealOrder
        /\ Cardinality(SeqToSet(actual_items)) = Len(actual_items)) =>
        /\ pc = "returned"
        /\ metrics.ndcg = One

\* while the repeats and the correct item fit in the first k tokens (r < k)
\* the correct item is a hit at rank 2
RepeatWithinCutoffTakesOneSlot ==
    \A r \in 1..Len(ranked_items) :
        (Finished /\ k >= 2 /\ r < k /\ RepeatThenHit(r)) =>
            /\ pc = "returned"
            /\ metrics.hr = One
            /\ ranked_items[1] \notin SeqToSet(actual_items) => metrics.mrr = Rat(1, 2)

\* the guarded denominators: recall and ndcg default to 0
ReturnedZeroDenominatorIsZero ==
    pc = "returned" =>
        /\ actual_items = <<>> => metrics.recall = Zero
        /\ IDCG(actual_items, k) = 0 => metrics.ndcg = Zero

(* =========================== the notebook ============================= *)

Repeat(t, n) == [i \in 1..n |-> t]

\* the ground truth of the record shown in cell 11: one item, nine sentinels
OneItemNineSentinels == Join(<<ItemA>> \o Repeat(<<" ">> \o Sentinel, 9))
AllSentinels == Join(<<Sentinel>> \o Repeat(<<" ">> \o Sentinel, 9))
TwoItems == Join(<<ItemA, <<" ">> \o ItemB>>)
EmptyString == <<>>

SampleOutputs == {OneItemNineSentinels, AllSentinels, TwoItems, EmptyString}
SampleResponses == {ItemA, Join(<<ItemX \o <<" ">>, <<" ">> \o ItemB>>), <<" ">> \o Sentinel}

Records == [output : SampleOutputs, model_response : SampleResponses]

(* ---------------------- filter_endoftext_items ------------------------ *)

\* the tokens compared as split, untrimmed
KeepEntryNoStrip(entry) ==
    LET output_items == Split(entry.output)
    IN  \E i \in 1..Len(output_items) : output_items[i] # Sentinel

\* any(item != '<|endoftext|>' for item in output_items)
KeepEntry(entry) ==
    LET pieces == Split(entry.output)
        output_items == [i \in 1..Len(pieces) |-> Strip(pieces[i])]
    IN  \E i \in 1..Len(output_items) : output_items[i] # Sentinel

FilterEntry ==
    /\ pc = "filter"
    /\ idx < Len(data_list)
    /\ filtered_data' = IF KeepEntry(data_list[idx + 1])
                        THEN Append(filtered_data, data_list[idx + 1])
                        ELSE filtered_data
    /\ idx' = idx + 1
    /\ UNCHANGED <<output, model_response, k, metrics, data_list, samples, sums,
                   avg_metrics, cell, pc>>

FilterReturn ==
    /\ pc = "filter"
    /\ idx = Len(data_list)
    /\ pc' = "filtered"
    /\ UNCHANGED <<output, model_response, k, metrics, data_list, filtered_data,
                   samples, idx, sums, avg_metrics, cell>>

(* --------------------- evaluate_metrics_on_list ----------------------- *)

ZeroSums == [m \in MetricNames |-> Zero]

EnterList(arg) ==
    /\ samples' = arg
    /\ sums' = ZeroSums
    /\ idx' = 0
    /\ pc' = "loop"
    /\ UNCHANGED <<output, model_response, k, metrics, data_list, filtered_data,
                   avg_metrics>>

\* cell 9: evaluate_metrics_on_list(data_list, k)
AllTestData ==
    /\ pc = "filtered"
    /\ cell = 7
    /\ cell' = 9
    /\ EnterList(data_list)

\* cell 10: evaluate_metrics_on_list(data_list_with_atleast_one_item_output, k)
FilteredTestData ==
    /\ pc \in {"returned", "raised"}
    /\ cell = 9
    /\ cell' = 10
    /\ EnterList(filtered_data)

\* recall_sum fed from precision@k
AccumulateCrossed(s, m) ==
    [s EXCEPT !.precision = RatAdd(s.precision, m.precision),
              !.recall = RatAdd(s.recall, m.precision),
              !.mrr = RatAdd(s.mrr, m.mrr),
              !.hr = RatAdd(s.hr, m.hr),
              !.ndcg = RatAdd(s.ndcg, m.ndcg)]

Accumulate(s, m) ==
    [s EXCEPT !.precision = RatAdd(s.precision, m.precision),
              !.recall = RatAdd(s.recall, m.recall),
              !.mrr = RatAdd(s.mrr, m.mrr),
              !.hr = RatAdd(s.hr, m.hr),
              !.ndcg = RatAdd(s.ndcg, m.ndcg)]

LoopRecord ==
    /\ pc = "loop"
    /\ idx < Len(samples)
    /\ output' = samples[idx + 1].output
    /\ model_response' = samples[idx + 1].model_response
    /\ metrics' = EvaluateMetrics(output', model_response', k)
    /\ IF metrics' = ZeroDivisionError
       THEN pc' = "raised" /\ UNCHANGED <<sums, idx>>
       ELSE sums' = Accumulate(sums, metrics') /\ idx' = idx + 1 /\ pc' = pc
    /\ UNCHANGED <<k, data_list, filtered_data, samples, avg_metrics, cell>>

ListReturn ==
    /\ pc = "loop"
    /\ idx = Len(samples)
    /\ LET num_samples == Len(samples)
       IN  IF num_samples = 0
           THEN pc' = "raised" /\ UNCHANGED avg_metrics
           ELSE /\ avg_metrics' = [m \in MetricNames |-> RatDivInt(sums[m], num_samples)]
                /\ pc' = "returned"
    /\ UNCHANGED <<output, model_response, k, metrics, data_list, filtered_data,
                   samples, idx, sums, cell>>

InitList ==
    /\ data_list \in SeqsUpTo(Records, MaxRecords)
    /\ k \in 1..MaxK
    /\ output = <<>>
    /\ model_response = <<>>
    /\ metrics = None
    /\ filtered_data = <<>>
    /\ samples = <<>>
    /\ idx = 0
    /\ sums = None
    /\ avg_metrics = None
    /\ cell = 7
    /\ pc = "filter"

NextList ==
    \/ FilterEntry
    \/ FilterReturn
    \/ AllTestData
    \/ FilteredTestData
    \/ LoopRecord
    \/ ListReturn

SpecList == InitList /\ [][NextList]_vars

(* ---------------------- claims about the notebook --------------------- *)

FilterDone == cell >= 7 /\ pc # "filter"

\* the comma-split, trimmed token list of s holds a token other than the sentinel
HasOtherThanSentinel(s) == \E t \in SeqToSet(Split(s)) : Strip(t) # Sentinel

\* C5: the filter returns exactly the records whose trimmed 'output' token
\* list holds a token other than the sentinel, in their original order; an
\* all-sentinel record is excluded, one item with nine sentinels is retained.
C5_FilterKeepsExactlyNonSentinel ==
    /\ pc = "filter" =>
           filtered_data = SelectSeq(SubSeq(data_list, 1, idx),
                                     LAMBDA e : HasOtherThanSentinel(e.output))
    /\ FilterDone =>
           /\ filtered_data = SelectSeq(data_list, LAMBDA e : HasOtherThanSentinel(e.output))
           /\ \A e \in SeqToSet(data_list) :
                  /\ e.output = AllSentinels => e \notin SeqToSet(filtered_data)
                  /\ e.output = OneItemNineSentinels => e \in SeqToSet(filtered_data)

\* the filter has run over an all-sentinel record followed by a record with
\* one item and nine sentinels, and returned the second alone
C5_Witness ==
    /\ FilterDone
    /\ Len(data_list) = 2
    /\ data_list[1].output = AllSentinels
    /\ data_list[2].output = OneItemNineSentinels
    /\ filtered_data = <<data_list[2]>>

\* C6: every record the filter returns has at least one item identifier in
\* its 'output'.
C6_FilteredHaveAnItem ==
    FilterDone =>
        \A i \in 1..Len(filtered_data) : ActualItems(filtered_data[i].output) # <<>>

RECURSIVE SumOver(_, _)
\* the sum of metric m over the records of s
SumOver(s, m) ==
    IF s = <<>> THEN Zero
    ELSE RatAdd(SumOver(SubSeq(s, 1, Len(s) - 1), m),
                EvaluateMetrics(s[Len(s)].output, s[Len(s)].model_response, k)[m])

RatMulInt(a, n) == Rat(a.num * n, a.den)

\* C7: each running sum is the sum of its metric over the records processed
\* so far, and each returned average times the record count is the sum of
\* its metric over all the records.
C7_AveragesAreArithmeticMeans ==
    /\ pc = "loop" =>
           \A m \in MetricNames : sums[m] = SumOver(SubSeq(samples, 1, idx), m)
    /\ pc = "returned" =>
           \A m \in MetricNames :
               RatMulInt(avg_metrics[m], Len(samples)) = SumOver(samples, m)

\* two different records were averaged: precision 1 and 0, recall 1/2 and 0
C7_Witness ==
    /\ pc = "returned"
    /\ Len(samples) = 2
    /\ samples[1] # samples[2]
    /\ avg_metrics.precision = Rat(1, 2)
    /\ avg_metrics.recall = Rat(1, 4)
    /\ avg_metrics.ndcg # avg_metrics.recall

ListFinished == cell \in {9, 10} /\ pc \in {"returned", "raised"}

EveryPredictionHasAnItem ==
    \A i \in 1..Len(samples) : ItemsOf(Split(samples[i].model_response)) # <<>>

\* C10: the call returns averages if and only if the list is non-empty and
\* every record's prediction holds an item token; otherwise it raises and
\* hands back no averages.
C10_ReturnsIffAllPredictionsHaveItems ==
    /\ ListFinished =>
           /\ pc = "returned" <=> (samples # <<>> /\ EveryPredictionHasAnItem)
           /\ pc = "returned" => DOMAIN avg_metrics = MetricNames
    /\ (cell = 9 /\ pc = "raised") => avg_metrics = None

\* the list's first record evaluates, its second has no item token in the
\* prediction, and the whole call raised
C10_Witness ==
    /\ cell = 9
    /\ pc = "raised"
    /\ Len(samples) = 2
    /\ idx = 1
    /\ ItemsOf(Split(samples[1].model_response)) # <<>>
    /\ ItemsOf(Split(samples[2].model_response)) = <<>>
    /\ avg_metrics = None

====
